---- MODULE Spec2Model ----
(***************************************************************************)
(* Model of comment_checker.py: the comment authenticity scoring engine    *)
(* (analyze_comment), the CSV reader (read_comments_csv), URL mode         *)
(* (process_url with its demo fallback) and the run of main from the menu  *)
(* choice to the report.                                                   *)
(*                                                                         *)
(* Texts are TLA+ strings.  Two ASCII characters stand for code points     *)
(* the module's character set cannot write:                                *)
(*     "*"  stands for U+1F525 (fire),  "^" for U+1F44D (thumbs up),       *)
(* both inside the emoji class of line 245, neither a word character nor   *)
(* one of "!?.".  No text of the model uses "*" or "^" for anything else.  *)
(***************************************************************************)
EXTENDS Integers, Sequences, FiniteSets, TLC

VARIABLES
    collected,      \* main/process_url: the comments to score
    analysis,       \* main line 511: results returned so far, in order
    running,        \* analyze_comment: local `score` at line 279, per call
    detected,       \* per call: what langdetect.detect did, or "not-called"
    pc,             \* position of the process
    file,           \* read_comments_csv: the file at `path` (lines) or NoFile
    url,            \* process_url: the url argument
    env,            \* process_url: the credentials present in os.environ
    platform,       \* process_url: local `platform`
    fetched,        \* process_url: local `collected` when line 454 is reached
    analysis_sorted,\* main line 512
    report,         \* the calls of generate_pdf_report made so far, in order
    exitStatus      \* <<>> while the process runs, then <<its exit status>>

vars == <<collected, analysis, running, detected, pc, file, url, env,
          platform, fetched, analysis_sorted, report, exitStatus>>

-----------------------------------------------------------------------------
(* Strings                                                                 *)

Ch(s, i) == SubSeq(s, i, i)

\* Python: sub in s
Contains(s, sub) ==
    \E i \in 1..(Len(s) - Len(sub) + 1) : SubSeq(s, i, i + Len(sub) - 1) = sub

UpperAlpha == "ABCDEFGHIJKLMNOPQRSTUVWXYZ"
LowerAlpha == "abcdefghijklmnopqrstuvwxyz"

CharsOf(alphabet) == { Ch(alphabet, i) : i \in 1..Len(alphabet) }

DigitChars == CharsOf("0123456789")
UpperChars == CharsOf(UpperAlpha)
AlphaChars == UpperChars \cup CharsOf(LowerAlpha)
PunctChars == CharsOf("!?.")

IsDigit(c) == c \in DigitChars
IsAlpha(c) == c \in AlphaChars
\* regex \w on the model's character set
IsWord(c) == IsAlpha(c) \/ IsDigit(c) \/ c = "_"
IsSpace(c) == c = " "

LowerTable ==
    [ c \in UpperChars |->
        Ch(LowerAlpha, CHOOSE i \in 1..Len(UpperAlpha) : Ch(UpperAlpha, i) = c) ]

LowerCh(c) == IF c \in UpperChars THEN LowerTable[c] ELSE c

RECURSIVE Lower(_)
\* Python: s.lower()
Lower(s) == IF s = "" THEN "" ELSE LowerCh(Ch(s, 1)) \o Lower(SubSeq(s, 2, Len(s)))

RECURSIVE LStrip(_)
LStrip(s) ==
    IF s # "" /\ IsSpace(Ch(s, 1)) THEN LStrip(SubSeq(s, 2, Len(s))) ELSE s

RECURSIVE RStrip(_)
RStrip(s) ==
    IF s # "" /\ IsSpace(Ch(s, Len(s))) THEN RStrip(SubSeq(s, 1, Len(s) - 1)) ELSE s

\* Python: s.strip()
Strip(s) == RStrip(LStrip(s))

\* Python: sum(pred(ch) for ch in s)
CountDigits(s) == Cardinality({i \in 1..Len(s) : IsDigit(Ch(s, i))})

\* Python: s.isalpha()
IsAlphaStr(s) == s # "" /\ \A i \in 1..Len(s) : IsAlpha(Ch(s, i))

\* Python: s.isdigit()
IsDigitStr(s) == s # "" /\ \A i \in 1..Len(s) : IsDigit(Ch(s, i))

\* Python: s.find(sub) + 1, for a sub that s contains
FindFirst(s, sub) ==
    CHOOSE i \in 1..(Len(s) - Len(sub) + 1) :
        /\ SubSeq(s, i, i + Len(sub) - 1) = sub
        /\ \A j \in 1..(i - 1) : SubSeq(s, j, j + Len(sub) - 1) # sub

RECURSIVE SplitStr(_, _)
\* Python: s.split(sep)
SplitStr(s, sep) ==
    IF ~Contains(s, sep) THEN << s >>
    ELSE LET i == FindFirst(s, sep) IN
         << SubSeq(s, 1, i - 1) >> \o SplitStr(SubSeq(s, i + Len(sep), Len(s)), sep)

Max(a, b) == IF a >= b THEN a ELSE b
Min(a, b) == IF a <= b THEN a ELSE b

-----------------------------------------------------------------------------
(* analyze_comment: the rule conditions, lines 236-278                     *)

\* line 236: re.search(r'https?://|www\.', text)
HasUrl(text) ==
    Contains(text, "http://") \/ Contains(text, "https://") \/ Contains(text, "www.")

\* line 239: re.search(r'\b\d{7,}\b', text)
HasLongNumber(text) ==
    \E i \in 1..Len(text) : \E j \in i..Len(text) :
        /\ j - i + 1 >= 7
        /\ \A k \in i..j : IsDigit(Ch(text, k))
        /\ (i = 1 \/ ~IsWord(Ch(text, i - 1)))
        /\ (j = Len(text) \/ ~IsWord(Ch(text, j + 1)))

\* line 242: re.search(r'([!?.]){3,}', text) or re.search(r'(.)\1{6,}', text)
ExcessivePunct(text) ==
    \/ \E i \in 1..(Len(text) - 2) : \A k \in i..(i + 2) : Ch(text, k) \in PunctChars
    \/ \E i \in 1..(Len(text) - 6) : \A k \in i..(i + 6) : Ch(text, k) = Ch(text, i)

\* line 245: the character class, on the model's character set
IsEmoji(c) == c = "*" \/ c = "^"

\* line 245: len(re.findall(...))
EmojiCount(text) == Cardinality({i \in 1..Len(text) : IsEmoji(Ch(text, i))})

\* line 249
GenericPraise == {"nice", "good", "great", "^", "*"}

\* mutant: the rule skips an empty text
ShortOrGeneric_NonEmpty(text) ==
    text # "" /\ (Len(text) <= 4 \/ Lower(text) \in GenericPraise)

ShortOrGeneric(text) == Len(text) <= 4 \/ Lower(text) \in GenericPraise

\* line 252, flags=re.I
PromoPhrases ==
    {"follow me", "check my profile", "subscribe", "dm for", "contact me", "visit my"}

SelfPromo(text) == LET low == Lower(text) IN \E p \in PromoPhrases : Contains(low, p)

\* line 262: re.search(r'user\d{2,}', author, flags=re.I)
UserPattern(author) ==
    LET a == Lower(author) IN
    \E i \in 1..(Len(a) - 5) :
        /\ SubSeq(a, i, i + 3) = "user"
        /\ IsDigit(Ch(a, i + 4))
        /\ IsDigit(Ch(a, i + 5))

\* lines 260-262
ManyDigits(author) == author # "" /\ (CountDigits(author) >= 3 \/ UserPattern(author))

\* lines 260, 265
ShortUsername(author) == author # "" /\ Len(author) <= 2 /\ IsAlphaStr(author)

\* lines 260, 268: re.search(r'(bot|spam|free|promo)', author, flags=re.I)
BotKeyword(author) ==
    /\ author # ""
    /\ LET low == Lower(author) IN
       \E k \in {"bot", "spam", "free", "promo"} : Contains(low, k)

-----------------------------------------------------------------------------
(* The comments scored: canonical Comment records over small pools.        *)

Texts ==
    { "", "Sample comment.", "Great video! Loved it.", "Great", "www.",
      "see https://a.b/c", "id 1234567", "wow!!!", "love ****",
      "Follow me for more", "visit my www.a.b 1111111 ****", " Tres bien " }
Authors == { "", "User123", "RealFan", "ab", "PromoBot", "SpamBot789" }
Likes == { 0, 10, 24, 25 }
Platforms == { "youtube", "facebook", "instagram" }

-----------------------------------------------------------------------------
(* analyze_comment: scoring, lines 225-300                                 *)

\* the conditions of lines 236, 239, 242, 246, 249, 252, in statement order
TextConds(text) ==
    << HasUrl(text), HasLongNumber(text), ExcessivePunct(text),
       EmojiCount(text) >= 4, ShortOrGeneric(text), SelfPromo(text) >>

\* the conditions of lines 262, 265, 268 (each under line 260), in statement order
AuthorConds(author) ==
    << ManyDigits(author), ShortUsername(author), BotKeyword(author) >>

(* Strip and the conditions on the pools' strings, evaluated once; any     *)
(* other string is computed on use.                                        *)
StripMemo == [ s \in Texts \cup Authors |-> Strip(s) ]
StripOf(s) == IF s \in DOMAIN StripMemo THEN StripMemo[s] ELSE Strip(s)

TextCondsMemo == [ t \in { StripMemo[s] : s \in Texts } |-> TextConds(t) ]
TextCondsOf(t) == IF t \in DOMAIN TextCondsMemo THEN TextCondsMemo[t] ELSE TextConds(t)

AuthorCondsMemo == [ a \in { StripMemo[s] : s \in Authors } |-> AuthorConds(a) ]
AuthorCondsOf(a) ==
    IF a \in DOMAIN AuthorCondsMemo THEN AuthorCondsMemo[a] ELSE AuthorConds(a)

StartScore == 60

None == [d |-> 0, r |-> <<>>]

\* one `if cond: score += delta; reasons.append(reason)` statement
Rule(cond, delta, reason) == IF cond THEN [d |-> delta, r |-> <<reason>>] ELSE None

\* lines 236-254, in statement order
TextRules(text) ==
    LET k == TextCondsOf(text) IN
    << Rule(k[1], -35, "Contains a URL or web link (common in spam)."),
       Rule(k[2], -10, "Contains a long numeric sequence (could be phone/ID)."),
       Rule(k[3], -8, "Excessive punctuation or repeated characters."),
       Rule(k[4], -6, "High emoji density (can indicate low-effort engagement)."),
       Rule(k[5], -12, "Very short or generic praise; often low-effort or bot-like."),
       Rule(k[6], -30, "Self-promotional call-to-action (common spam).") >>

\* mutant: the likeCount == 0 branch adjusts nothing
LikeRule_NoPenalty(like) ==
    Rule(like >= 25, 10, "High likes - social traction suggests authenticity.")

\* lines 255-259: the == 0 branch appends no reason
\* (the reason's dash is U+2014 in the source)
LikeRule(like) ==
    IF like = 0 THEN [d |-> -4, r |-> <<>>]
    ELSE Rule(like >= 25, 10, "High likes - social traction suggests authenticity.")

\* mutant: the keyword statement runs before the digits statement
AuthorRules_Swapped(author) ==
    LET k == AuthorCondsOf(author) IN
    << Rule(k[3], -20, "Username contains bot/promo keywords."),
       Rule(k[2], -6, "Suspiciously short username (could be fake)."),
       Rule(k[1], -10,
            "Author name contains many digits / generic pattern (possible bot).") >>

\* mutant: the digits statement appends its reason and leaves the score alone
AuthorRules_NoAdjust(author) ==
    LET k == AuthorCondsOf(author) IN
    << Rule(k[1], 0,
            "Author name contains many digits / generic pattern (possible bot)."),
       Rule(k[2], -6, "Suspiciously short username (could be fake)."),
       Rule(k[3], -20, "Username contains bot/promo keywords.") >>

\* lines 260-270, in statement order
AuthorRules(author) ==
    LET k == AuthorCondsOf(author) IN
    << Rule(k[1], -10,
            "Author name contains many digits / generic pattern (possible bot)."),
       Rule(k[2], -6, "Suspiciously short username (could be fake)."),
       Rule(k[3], -20, "Username contains bot/promo keywords.") >>

\* lines 275-276
UnexpectedLanguage(text, plat, lang) ==
    /\ plat \in {"facebook", "instagram"}
    /\ lang \notin {"en", "unknown"}
    /\ Len(text) < 20

\* lines 272-278
LangRule(text, plat, lang) ==
    IF lang = "unknown"
    THEN [d |-> 0, r |-> <<"Language could not be reliably detected.">>]
    ELSE Rule(UnexpectedLanguage(text, plat, lang), -6,
              "Short comment in an unexpected language for this post (weak signal).")

(* What langdetect.detect does on a call: it returns a language code, raises *)
(* LangDetectException, or raises some other exception.                      *)
LangCodes == {"en", "fr"}
DetectOutcomes == LangCodes \cup {"LangDetectException", "Exception"}

\* lines 218-223: only LangDetectException is caught
DetectLanguageRaises(det) == det = "Exception"
detect_language(det) == IF det = "LangDetectException" THEN "unknown" ELSE det

\* lines 227-230
TextOf(comment) == StripOf(comment.text)
AuthorOf(comment) == StripOf(comment.author)
PlatformOf(comment) == IF comment.platform = "" THEN "unknown" ELSE comment.platform

\* line 271: lang = detect_language(text) if text else 'unknown'
DetectInvoked(comment) == TextOf(comment) # ""
LangOf(comment, det) == IF DetectInvoked(comment) THEN detect_language(det) ELSE "unknown"

\* does the call leave analyze_comment by an exception?
AnalyzeRaises(comment, det) == DetectInvoked(comment) /\ DetectLanguageRaises(det)

\* lines 232-278: every statement that adjusts score or appends a reason, in order
Steps(comment, det) ==
    TextRules(TextOf(comment))
        \o << LikeRule(comment.likeCount) >>
        \o AuthorRules(AuthorOf(comment))
        \o << LangRule(TextOf(comment), PlatformOf(comment), LangOf(comment, det)) >>

RECURSIVE SumDeltas(_)
SumDeltas(steps) ==
    IF steps = <<>> THEN 0 ELSE Head(steps).d + SumDeltas(Tail(steps))

RECURSIVE AllReasons(_)
AllReasons(steps) ==
    IF steps = <<>> THEN <<>> ELSE Head(steps).r \o AllReasons(Tail(steps))

\* local `score` when line 280 is reached
RunningScore(comment, det) == StartScore + SumDeltas(Steps(comment, det))

\* mutant: the clamp has no floor
ClampScore_NoFloor(score) == Min(100, score)

\* line 280
ClampScore(score) == Max(0, Min(100, score))

\* mutant: the likely-real threshold is exclusive
VerdictOf_Strict(score) ==
    IF score >= 60 THEN "real"
    ELSE IF score > 40 THEN "likely-real"
    ELSE IF score >= 20 THEN "likely-fake"
    ELSE "fake"

\* lines 281-288
VerdictOf(score) ==
    IF score >= 60 THEN "real"
    ELSE IF score >= 40 THEN "likely-real"
    ELSE IF score >= 20 THEN "likely-fake"
    ELSE "fake"

\* lines 225-300: the dict returned
analyze_comment(comment, det) ==
    LET score == ClampScore(RunningScore(comment, det)) IN
    [ author      |-> IF AuthorOf(comment) = "" THEN "Unknown" ELSE AuthorOf(comment),
      text        |-> TextOf(comment),
      platform    |-> PlatformOf(comment),
      publishedAt |-> comment.publishedAt,
      likeCount   |-> comment.likeCount,
      score       |-> score,
      verdict     |-> VerdictOf(score),
      reasons     |-> AllReasons(Steps(comment, det)),
      language    |-> LangOf(comment, det) ]

-----------------------------------------------------------------------------
(* main line 511: analysis = [analyze_comment(c) for c in collected]        *)

\* open(path) fails: there is no readable file at path
NoFile == [exists |-> FALSE, lines |-> <<>>]

\* one call of analyze_comment returns and its result is appended
AnalyzeReturn ==
    /\ pc = "analyze"
    /\ Len(analysis) < Len(collected)
    /\ LET c == collected[Len(analysis) + 1] IN
       \E det \in DetectOutcomes :
           /\ ~AnalyzeRaises(c, det)
           /\ analysis' = Append(analysis, analyze_comment(c, det))
           /\ running' = Append(running, RunningScore(c, det))
           /\ detected' = Append(detected, IF DetectInvoked(c) THEN det ELSE "not-called")
    /\ UNCHANGED <<collected, pc, file, url, env, platform, fetched>>
    /\ UNCHANGED <<analysis_sorted, report, exitStatus>>

\* one call of analyze_comment raises: the exception leaves the comprehension
AnalyzeRaise ==
    /\ pc = "analyze"
    /\ Len(analysis) < Len(collected)
    /\ LET c == collected[Len(analysis) + 1] IN
       \E det \in DetectOutcomes :
           /\ AnalyzeRaises(c, det)
           /\ detected' = Append(detected, det)
    /\ pc' = "raised"
    /\ exitStatus' = <<1>>
    /\ UNCHANGED <<collected, analysis, running, file, url, env, platform, fetched>>
    /\ UNCHANGED <<analysis_sorted, report>>

Comments ==
    [ author : Authors, text : Texts, publishedAt : {"2023-01-01"},
      likeCount : Likes, platform : Platforms ]

\* the comments that differ from c in at most one field
Variants(c) ==
    {c} \cup { [c EXCEPT !.text = t] : t \in Texts }
        \cup { [c EXCEPT !.author = a] : a \in Authors }
        \cup { [c EXCEPT !.likeCount = l] : l \in Likes }
        \cup { [c EXCEPT !.platform = p] : p \in Platforms }

InitAnalyze ==
    /\ \E c \in Comments : \E d \in Variants(c) : collected = <<c, d>>
    /\ analysis = <<>>
    /\ running = <<>>
    /\ detected = <<>>
    /\ pc = "analyze"
    /\ file = NoFile
    /\ url = ""
    /\ env = {}
    /\ platform = "unknown"
    /\ fetched = <<>>
    /\ analysis_sorted = <<>>
    /\ report = <<>>
    /\ exitStatus = <<>>

NextAnalyze == AnalyzeReturn \/ AnalyzeRaise

SpecAnalyze == InitAnalyze /\ [][NextAnalyze]_vars

-----------------------------------------------------------------------------
(* Claims on analyze_comment (SpecAnalyze)                                 *)

Returned == 1..Len(analysis)

(* The thirteen rule conditions of the rule table for call i, in table     *)
(* order: 1-6 text, 7 likeCount == 0, 8 likeCount >= 25 (rule 7'), 9-11 the *)
(* author rules 8-10, 12 language unknown (rule 11), 13 rule 12.           *)
CondsAt(i) ==
    LET c == collected[i]
        lang == analysis[i].language
    IN  TextCondsOf(TextOf(c))
            \o << c.likeCount = 0, c.likeCount >= 25 >>
            \o AuthorCondsOf(AuthorOf(c))
            \o << lang = "unknown",
                  lang # "unknown" /\ UnexpectedLanguage(TextOf(c), PlatformOf(c), lang) >>

RuleIds == 1..13
LikeZero == 7

\* the rule table's fixed adjustments, in the order of CondsAt
RuleDelta == << -35, -10, -8, -6, -12, -30, -4, 10, -10, -6, -20, 0, -6 >>

\* the rule table's reasons, in the order of CondsAt (rule 7 has none)
RuleReason ==
    << "Contains a URL or web link (common in spam).",
       "Contains a long numeric sequence (could be phone/ID).",
       "Excessive punctuation or repeated characters.",
       "High emoji density (can indicate low-effort engagement).",
       "Very short or generic praise; often low-effort or bot-like.",
       "Self-promotional call-to-action (common spam).",
       "",
       "High likes - social traction suggests authenticity.",
       "Author name contains many digits / generic pattern (possible bot).",
       "Suspiciously short username (could be fake).",
       "Username contains bot/promo keywords.",
       "Language could not be reliably detected.",
       "Short comment in an unexpected language for this post (weak signal)." >>

\* C1: every returned score is an integer with 0 <= score <= 100.
C1_ScoreInRange == \A i \in Returned : analysis[i].score \in 0..100

\* C1 witness: every penalty that can fire together has fired (the sum is
\* 60 - 123 = -63) and the call has returned.
C1_Witness ==
    \E i \in Returned :
        /\ running[i] = -63
        /\ analysis[i].score = 0

VerdictRank(v) ==
    CASE v = "fake" -> 0 [] v = "likely-fake" -> 1 [] v = "likely-real" -> 2
      [] v = "real" -> 3

\* C2: the verdict is the step function of the clamped score (>= 60 real,
\* 40..59 likely-real, 20..39 likely-fake, < 20 fake), and of two results the
\* one with the higher score never has the lower verdict rank.
C2_VerdictOfScore ==
    /\ \A i \in Returned :
          LET r == analysis[i] IN
          /\ (r.score >= 60) = (r.verdict = "real")
          /\ (r.score >= 40 /\ r.score < 60) = (r.verdict = "likely-real")
          /\ (r.score >= 20 /\ r.score < 40) = (r.verdict = "likely-fake")
          /\ (r.score < 20) = (r.verdict = "fake")
    /\ \A i, j \in Returned :
          analysis[i].score >= analysis[j].score
              => VerdictRank(analysis[i].verdict) >= VerdictRank(analysis[j].verdict)

\* C2 witness: two results on the thresholds 60 and 40.
C2_Witness ==
    \E i, j \in Returned :
        /\ analysis[i].score = 60 /\ analysis[i].verdict = "real"
        /\ analysis[j].score = 40 /\ analysis[j].verdict = "likely-real"

\* calls i and j agree on every rule condition but r, which is off in i, on in j
Toggled(i, j, r) ==
    LET ki == CondsAt(i)
        kj == CondsAt(j)
    IN  /\ ~ki[r]
        /\ kj[r]
        /\ \A q \in RuleIds \ {r} : ki[q] = kj[q]

\* C3 as stated: if two comments differ in exactly one rule's condition, the
\* returned scores differ by exactly that rule's adjustment.
C3_Original ==
    \A i, j \in Returned : \A r \in RuleIds :
        Toggled(i, j, r) => analysis[j].score - analysis[i].score = RuleDelta[r]

\* C3 amended: the sums before the clamp differ by exactly that rule's
\* adjustment, and so do the returned scores when neither sum is outside 0..100.
C3_RuleIndependence ==
    \A i, j \in Returned : \A r \in RuleIds :
        Toggled(i, j, r) =>
            /\ running[j] - running[i] = RuleDelta[r]
            /\ (running[i] \in 0..100 /\ running[j] \in 0..100)
                   => analysis[j].score - analysis[i].score = RuleDelta[r]

\* C3 witness: one rule with a non-zero adjustment toggled between two returned
\* results, the sum of the second one below 0.
C3_Witness ==
    \E i, j \in Returned : \E r \in RuleIds :
        /\ Toggled(i, j, r)
        /\ RuleDelta[r] # 0
        /\ running[i] \in 0..100
        /\ running[j] < 0

RECURSIVE ReasonsFrom(_, _)
\* the reasons of the fired rules from r on, in table order, rule 7 left out
ReasonsFrom(k, r) ==
    IF r > 13 THEN <<>>
    ELSE (IF k[r] /\ r # LikeZero THEN << RuleReason[r] >> ELSE <<>>)
             \o ReasonsFrom(k, r + 1)

FiredCount(k) == Cardinality({ r \in RuleIds : k[r] })

\* C4 as stated: reasons holds one entry per fired rule, none for the others,
\* in rule order.
C4_Original ==
    \A i \in Returned :
        /\ Len(analysis[i].reasons) = FiredCount(CondsAt(i))
        /\ analysis[i].reasons = ReasonsFrom(CondsAt(i), 1)

\* C4 amended: reasons holds, in rule order, one entry per fired rule other
\* than rule 7 (likeCount == 0, which has no reason) and nothing else.
C4_ReasonsInOrder ==
    \A i \in Returned : analysis[i].reasons = ReasonsFrom(CondsAt(i), 1)

\* C4 witness: rule 7 fired together with two author rules and a text rule.
C4_Witness ==
    \E i \in Returned :
        LET k == CondsAt(i) IN
        /\ k[LikeZero] /\ k[9] /\ k[11] /\ k[1]
        /\ Len(analysis[i].reasons) >= 3

\* spec scenario 1 (the first youtube sample, line 152)
Scenario1 ==
    [ author |-> "User123", text |-> "Great video! Loved it.",
      publishedAt |-> "2023-01-01", likeCount |-> 10, platform |-> "youtube" ]

IsScenario1(i) == collected[i] = Scenario1 /\ analysis[i].language = "en"

\* C5 as stated: scenario 1 with detected language en fires no rule and gives
\* score 60, verdict real.
C5_Original ==
    \A i \in Returned :
        IsScenario1(i) =>
            /\ analysis[i].reasons = <<>>
            /\ analysis[i].score = 60
            /\ analysis[i].verdict = "real"

\* C5 amended: scenario 1 with detected language en fires exactly rule 8 (the
\* author has three digits and matches user\d{2,}) and gives score 50, verdict
\* likely-real.
C5_Scenario1 ==
    \A i \in Returned :
        IsScenario1(i) =>
            /\ analysis[i].reasons = << RuleReason[9] >>
            /\ analysis[i].score = 50
            /\ analysis[i].verdict = "likely-real"

\* C5 witness: scenario 1 has been scored with detected language en.
C5_Witness == \E i \in Returned : IsScenario1(i)

\* spec scenario 4: empty text, empty author, likeCount 0
IsScenario4(i) ==
    /\ TextOf(collected[i]) = ""
    /\ AuthorOf(collected[i]) = ""
    /\ collected[i].likeCount = 0

\* C6 as stated: scenario 4 applies only the likeCount == 0 adjustment and the
\* language reason: score 56, verdict likely-real.
C6_Original ==
    \A i \in Returned :
        IsScenario4(i) =>
            /\ analysis[i].reasons = << RuleReason[12] >>
            /\ analysis[i].score = 56
            /\ analysis[i].verdict = "likely-real"

\* C6 amended: scenario 4 applies rule 5 (length 0 <= 4, -12), the
\* likeCount == 0 adjustment (-4) and the language reason: score 44, verdict
\* likely-real.
C6_Scenario4 ==
    \A i \in Returned :
        IsScenario4(i) =>
            /\ analysis[i].reasons = << RuleReason[5], RuleReason[12] >>
            /\ analysis[i].score = 44
            /\ analysis[i].verdict = "likely-real"

\* C6 witness: scenario 4 has been scored.
C6_Witness == \E i \in Returned : IsScenario4(i)

\* C7: no call of analyze_comment fails: whatever way the detector fails, the
\* call returns with language unknown and a score the language adds nothing
\* to; the detector is invoked exactly when the trimmed text is non-empty.
C7_NeverFails ==
    /\ pc # "raised"
    /\ \A i \in 1..Len(detected) :
          /\ (detected[i] # "not-called") = (TextOf(collected[i]) # "")
          /\ detected[i] \notin LangCodes =>
                 /\ i \in Returned
                 /\ analysis[i].language = "unknown"
                 /\ analysis[i].score = ClampScore(running[i])
                 /\ running[i] =
                        StartScore + SumDeltas(SubSeq(Steps(collected[i], "en"), 1, 10))

-----------------------------------------------------------------------------
(* read_comments_csv, lines 182-214                                        *)
(* A file is its sequence of lines, without the line terminators; the      *)
(* lines of the model hold no quote character, so csv.reader splits a      *)
(* line at its commas and nothing else.                                    *)

\* Python's None in a row dict
NoneVal == "<None>"

\* Python: s.split(',')
SplitComma(s) == SplitStr(s, ",")

\* csv.reader: the row of one line (an empty line is the empty row)
CsvRow(line) == IF line = "" THEN <<>> ELSE SplitComma(line)

\* csv.DictReader.fieldnames (line 189): the first row, None for an empty file
FieldnamesIsNone(lines) == lines = <<>>
Fieldnames(lines) == CsvRow(lines[1])

MaxOf(S) == CHOOSE x \in S : \A y \in S : y <= x

(* csv.DictReader.__next__ and dict.get: d = dict(zip(fieldnames, row)),    *)
(* then every fieldname beyond the row is set to None; a key not in d is    *)
(* None too.                                                                *)
RowGet(fields, row, key) ==
    IF \E i \in (Len(row) + 1)..Len(fields) : fields[i] = key THEN NoneVal
    ELSE LET I == { i \in 1..Min(Len(fields), Len(row)) : fields[i] = key } IN
         IF I = {} THEN NoneVal ELSE row[MaxOf(I)]

\* Python truth value of a str or None
Truthy(v) == v # NoneVal /\ v # ""

\* Python: a or b, b a string or None
OrElse(a, b) == IF Truthy(a) THEN a ELSE b

DigitVal(c) == CHOOSE d \in 0..9 : Ch("0123456789", d + 1) = c

RECURSIVE DigitsVal(_)
DigitsVal(s) ==
    IF s = "" THEN 0 ELSE 10 * DigitsVal(SubSeq(s, 1, Len(s) - 1)) + DigitVal(Ch(s, Len(s)))

\* the digits of an int literal: s without surrounding blanks and without a sign
IntBody(s) ==
    LET t == Strip(s) IN
    IF t # "" /\ Ch(t, 1) \in {"+", "-"} THEN SubSeq(t, 2, Len(t)) ELSE t

\* Python: int(s) does not raise ValueError (no "_" in the model's lines)
IntOk(s) == IsDigitStr(IntBody(s))

\* Python: int(s)
IntVal(s) ==
    LET t == Strip(s) IN
    IF Ch(t, 1) = "-" THEN 0 - DigitsVal(IntBody(s)) ELSE DigitsVal(IntBody(s))

\* line 208: the argument of int(); 0 stands for the int 0 of `or 0`
LikeCell(fields, row) == OrElse(RowGet(fields, row, "likeCount"), RowGet(fields, row, "likes"))

\* line 208 raises ValueError
HeaderRowRaises(fields, row) ==
    Truthy(LikeCell(fields, row)) /\ ~IntOk(LikeCell(fields, row))

\* lines 204-210: the comment of one row of a file read with a header
HeaderRowComment(fields, row) ==
    [ author      |-> LET a == OrElse(RowGet(fields, row, "author"),
                                    OrElse(RowGet(fields, row, "user"),
                                           RowGet(fields, row, "username")))
                      IN IF Truthy(a) THEN a ELSE "Unknown",
      text        |-> LET t == OrElse(RowGet(fields, row, "text"),
                                    RowGet(fields, row, "comment"))
                      IN IF Truthy(t) THEN t ELSE "",
      publishedAt |-> LET t == OrElse(RowGet(fields, row, "publishedAt"),
                                    RowGet(fields, row, "time"))
                      IN IF Truthy(t) THEN t ELSE "",
      likeCount   |-> IF Truthy(LikeCell(fields, row))
                      THEN IntVal(LikeCell(fields, row)) ELSE 0,
      platform    |-> LET t == RowGet(fields, row, "platform")
                      IN IF Truthy(t) THEN t ELSE "unknown" ]

RECURSIVE HeaderRows(_, _)
(* lines 203-210 with the except of line 212: DictReader skips empty rows;  *)
(* the first row whose likeCount raises ends the loop and the comments      *)
(* appended before it are returned.                                         *)
HeaderRows(fields, lines) ==
    IF lines = <<>> THEN <<>>
    ELSE LET row == CsvRow(Head(lines)) IN
         IF row = <<>> THEN HeaderRows(fields, Tail(lines))
         ELSE IF HeaderRowRaises(fields, row) THEN <<>>
         ELSE << HeaderRowComment(fields, row) >> \o HeaderRows(fields, Tail(lines))

\* lines 192-201: the comment of one line read positionally
HeaderlessComment(parts) ==
    [ author      |-> Strip(parts[1]),
      text        |-> Strip(parts[2]),
      publishedAt |-> IF Len(parts) > 2 THEN Strip(parts[3]) ELSE "",
      likeCount   |-> IF Len(parts) > 3 /\ IsDigitStr(parts[4])
                      THEN DigitsVal(parts[4]) ELSE 0,
      platform    |-> IF Len(parts) > 4 THEN Strip(parts[5]) ELSE "unknown" ]

RECURSIVE HeaderlessRows(_)
\* lines 191-201: every line of the file, lines with fewer than 2 fields skipped
HeaderlessRows(lines) ==
    IF lines = <<>> THEN <<>>
    ELSE LET parts == SplitComma(Strip(Head(lines))) IN
         (IF Len(parts) < 2 THEN <<>> ELSE << HeaderlessComment(parts) >>)
             \o HeaderlessRows(Tail(lines))

\* lines 185-214: the list returned
read_comments_csv(f) ==
    IF ~f.exists THEN <<>>
    ELSE IF FieldnamesIsNone(f.lines) THEN HeaderlessRows(f.lines)
    ELSE HeaderRows(Fieldnames(f.lines), Tail(f.lines))

\* main lines 486-487
ReadCsv ==
    /\ pc = "read_csv"
    /\ collected' = read_comments_csv(file)
    /\ pc' = "csv_done"
    /\ UNCHANGED <<analysis, running, detected, file, url, env, platform, fetched>>
    /\ UNCHANGED <<analysis_sorted, report, exitStatus>>

MaxLines == 3

\* the lines a file of the model is made of
CsvLines ==
    { "author,text,publishedAt,likeCount,platform",
      "user,comment,likes",
      "ann,Nice post!,2023-02-01,15,facebook",
      "bob,Follow me for more,2023-02-02,abc,facebook",
      "cat,hello there,2023-02-03,,x",
      "dan,hi",
      "eve,ok?, 7",
      "solo",
      "" }

RECURSIVE SeqsUpTo(_, _)
\* the sequences over S of length at most n
SeqsUpTo(S, n) ==
    IF n = 0 THEN { <<>> }
    ELSE LET shorter == SeqsUpTo(S, n - 1) IN
         shorter \cup { Append(q, x) : q \in shorter, x \in S }

CsvFiles == { NoFile } \cup { [exists |-> TRUE, lines |-> l] : l \in SeqsUpTo(CsvLines, MaxLines) }

InitCsv ==
    /\ file \in CsvFiles
    /\ collected = <<>>
    /\ analysis = <<>>
    /\ running = <<>>
    /\ detected = <<>>
    /\ pc = "read_csv"
    /\ url = ""
    /\ env = {}
    /\ platform = "unknown"
    /\ fetched = <<>>
    /\ analysis_sorted = <<>>
    /\ report = <<>>
    /\ exitStatus = <<>>

NextCsv == ReadCsv

SpecCsv == InitCsv /\ [][NextCsv]_vars

-----------------------------------------------------------------------------
(* Claims on read_comments_csv (SpecCsv)                                   *)

\* the rows DictReader hands to the loop of line 203: the non-empty rows after
\* the first line
DataRows(lines) ==
    LET rest == SelectSeq(Tail(lines), LAMBDA l : l # "") IN
    [ i \in 1..Len(rest) |-> CsvRow(rest[i]) ]

\* the lines the loop of line 191 maps: those with at least 2 fields
PositionalLines(lines) ==
    SelectSeq(lines, LAMBDA l : Len(SplitComma(Strip(l))) >= 2)

\* a likeCount value normalized: its number, 0 when missing or non-numeric
NormLike(cell) == IF Truthy(cell) /\ IntOk(cell) THEN IntVal(cell) ELSE 0

\* C8: every row read, with a header or without, yields exactly one Comment,
\* a missing or non-numeric likeCount read as 0; no row is lost.
C8_LikeCountNormalized ==
    (pc = "csv_done" /\ file.exists) =>
        IF FieldnamesIsNone(file.lines)
        THEN Len(collected) = Len(PositionalLines(file.lines))
        ELSE LET fields == Fieldnames(file.lines)
                 rows == DataRows(file.lines)
             IN  /\ Len(collected) = Len(rows)
                 /\ \A i \in 1..Len(rows) :
                       collected[i].likeCount = NormLike(LikeCell(fields, rows[i]))

ColumnNames ==
    { "author", "user", "username", "text", "comment", "publishedAt", "time",
      "likeCount", "likes", "platform" }

\* the line names columns
IsHeaderLine(line) ==
    LET fields == CsvRow(line) IN
    fields # <<>> /\ \A i \in 1..Len(fields) : fields[i] \in ColumnNames

\* C9: a non-empty file without a header line is read positionally: every
\* line with at least 2 fields, the first line included, gives the comment
\* (author, text, publishedAt, likeCount, platform); only shorter lines are
\* dropped.
C9_HeaderlessPositional ==
    (pc = "csv_done" /\ file.exists /\ file.lines # <<>>
         /\ ~IsHeaderLine(file.lines[1]))
        => collected = HeaderlessRows(file.lines)

-----------------------------------------------------------------------------
(* URL mode: detect_platform_from_url, extract_youtube_id, the fetchers,   *)
(* load_sample_comments and process_url                                    *)

\* lines 19-32
detect_platform_from_url(u) ==
    LET l == Lower(u) IN
    IF Contains(l, "youtube.com") \/ Contains(l, "youtu.be") THEN "youtube"
    ELSE IF Contains(l, "instagram.com") THEN "instagram"
    ELSE IF Contains(l, "facebook.com") THEN "facebook"
    ELSE IF Contains(l, "x.com") \/ Contains(l, "twitter.com") THEN "x"
    ELSE IF Contains(l, "linkedin.com") THEN "linkedin"
    ELSE "unknown"

(* urllib.parse.urlparse (line 37), for a url without a "#": the scheme is  *)
(* cut at the first ":" when only scheme characters precede it, the netloc   *)
(* follows "//" up to the next "/" or "?", the query follows the first "?".  *)
SchemeChars == AlphaChars \cup DigitChars \cup CharsOf("+-.")

HasScheme(u) ==
    /\ Contains(u, ":")
    /\ FindFirst(u, ":") > 1
    /\ IsAlpha(Ch(u, 1))
    /\ \A i \in 1..(FindFirst(u, ":") - 1) : Ch(u, i) \in SchemeChars

AfterScheme(u) == IF HasScheme(u) THEN SubSeq(u, FindFirst(u, ":") + 1, Len(u)) ELSE u

HasNetloc(u) == Len(AfterScheme(u)) >= 2 /\ SubSeq(AfterScheme(u), 1, 2) = "//"

\* the position in r, from 3 on, of the first "/" or "?", Len(r) + 1 if none
NetlocEnd(r) ==
    LET D == { i \in 3..Len(r) : Ch(r, i) \in {"/", "?"} } IN
    IF D = {} THEN Len(r) + 1 ELSE CHOOSE i \in D : \A j \in D : i <= j

UrlNetloc(u) ==
    LET r == AfterScheme(u) IN
    IF HasNetloc(u) THEN SubSeq(r, 3, NetlocEnd(r) - 1) ELSE ""

AfterNetloc(u) ==
    LET r == AfterScheme(u) IN
    IF HasNetloc(u) THEN SubSeq(r, NetlocEnd(r), Len(r)) ELSE r

UrlPath(u) ==
    LET r == AfterNetloc(u) IN
    IF Contains(r, "?") THEN SubSeq(r, 1, FindFirst(r, "?") - 1) ELSE r

UrlQuery(u) ==
    LET r == AfterNetloc(u) IN
    IF Contains(r, "?") THEN SubSeq(r, FindFirst(r, "?") + 1, Len(r)) ELSE ""

RECURSIVE FirstValue(_, _)
(* urllib.parse.parse_qs(query).get(key, [None])[0] (lines 40-41): the      *)
(* first non-blank value of `key` among the name=value pairs                *)
FirstValue(pairs, key) ==
    IF pairs = <<>> THEN NoneVal
    ELSE LET nv == Head(pairs) IN
         IF /\ Contains(nv, "=")
            /\ SubSeq(nv, 1, FindFirst(nv, "=") - 1) = key
            /\ FindFirst(nv, "=") < Len(nv)
         THEN SubSeq(nv, FindFirst(nv, "=") + 1, Len(nv))
         ELSE FirstValue(Tail(pairs), key)

RECURSIVE LStripSlash(_)
\* line 39: path.lstrip('/')
LStripSlash(s) ==
    IF s # "" /\ Ch(s, 1) = "/" THEN LStripSlash(SubSeq(s, 2, Len(s))) ELSE s

\* lines 34-43
extract_youtube_id(u) ==
    IF Contains(UrlNetloc(u), "youtu.be") THEN LStripSlash(UrlPath(u))
    ELSE FirstValue(SplitStr(UrlQuery(u), "&"), "v")

\* Python: seq[-1], seq[-2]
Last(q) == q[Len(q)]
SecondLast(q) == q[Len(q) - 1]

(* What the platform API answers to requests.get: an error (a network       *)
(* failure, an HTTP error status, a body that is no JSON), or a payload of   *)
(* items.  An item holds the values the fetcher reads, NoneVal or <<>> for   *)
(* an absent key; ok = FALSE is an item the fetcher's subscripts fail on.    *)
MaxItems == 3

ApiItems ==
    { [ ok |-> TRUE, author |-> "Zed", text |-> "Nice one, thanks a lot",
        publishedAt |-> "2024-01-01", likes |-> << 3 >> ],
      [ ok |-> TRUE, author |-> NoneVal, text |-> NoneVal,
        publishedAt |-> NoneVal, likes |-> <<>> ],
      [ ok |-> FALSE, author |-> NoneVal, text |-> NoneVal,
        publishedAt |-> NoneVal, likes |-> <<>> ] }

ApiResponses ==
    { [ status |-> "error", items |-> <<>> ] }
        \cup { [ status |-> "ok", items |-> q ] : q \in SeqsUpTo(ApiItems, MaxItems) }

\* lines 67-73, 95-101, 122-128: the comment appended for one item
ItemComment(item, plat) ==
    [ author      |-> IF item.author = NoneVal THEN "Unknown" ELSE item.author,
      text        |-> IF item.text = NoneVal THEN "" ELSE item.text,
      publishedAt |-> IF item.publishedAt = NoneVal THEN "" ELSE item.publishedAt,
      likeCount   |-> IF item.likes = <<>> THEN 0 ELSE item.likes[1],
      platform    |-> plat ]

RECURSIVE ItemComments(_, _)
\* lines 65-75: the loop ends at the first item that raises; what was
\* appended before it is kept
ItemComments(items, plat) ==
    IF items = <<>> \/ ~Head(items).ok THEN <<>>
    ELSE << ItemComment(Head(items), plat) >> \o ItemComments(Tail(items), plat)

\* lines 47-76, 78-104, 106-131: fetch_youtube_comments, fetch_facebook_comments
\* and fetch_instagram_comments, called with a credential
fetch_comments(plat, hasToken, resp) ==
    IF ~hasToken \/ resp.status = "error" THEN <<>>
    ELSE ItemComments(resp.items, plat)

\* lines 133-139, 141-144
fetch_x_comments == <<>>
fetch_linkedin_comments == <<>>

\* lines 150-176; "***" is the three fire emoji of line 162
Samples ==
    [ youtube |->
        << [ author |-> "User123", text |-> "Great video! Loved it.",
             publishedAt |-> "2023-01-01", likeCount |-> 10, platform |-> "youtube" ],
           [ author |-> "BotLike456",
             text |-> "Check my channel for free stuff! https://example.com",
             publishedAt |-> "2023-01-02", likeCount |-> 0, platform |-> "youtube" ],
           [ author |-> "RealFan", text |-> "This changed my perspective.",
             publishedAt |-> "2023-01-03", likeCount |-> 5, platform |-> "youtube" ],
           [ author |-> "SpamBot789", text |-> "Call now 1234567890 for deals!!!",
             publishedAt |-> "2023-01-04", likeCount |-> 0, platform |-> "youtube" ] >>,
      facebook |->
        << [ author |-> "FriendA", text |-> "Nice post!",
             publishedAt |-> "2023-02-01", likeCount |-> 15, platform |-> "facebook" ],
           [ author |-> "PromoBot", text |-> "Follow me for more",
             publishedAt |-> "2023-02-02", likeCount |-> 1, platform |-> "facebook" ] >>,
      instagram |->
        << [ author |-> "Follower1", text |-> "***",
             publishedAt |-> "2023-03-01", likeCount |-> 20, platform |-> "instagram" ],
           [ author |-> "FakeUser", text |-> "DM for collab",
             publishedAt |-> "2023-03-02", likeCount |-> 0, platform |-> "instagram" ] >>,
      x |->
        << [ author |-> "TweeterX", text |-> "Interesting thread.",
             publishedAt |-> "2023-04-01", likeCount |-> 8, platform |-> "x" ],
           [ author |-> "BotTweet", text |-> "Visit my site: http://spam.com",
             publishedAt |-> "2023-04-02", likeCount |-> 0, platform |-> "x" ] >>,
      linkedin |->
        << [ author |-> "Professional1", text |-> "Valuable insights.",
             publishedAt |-> "2023-05-01", likeCount |-> 12, platform |-> "linkedin" ],
           [ author |-> "NetworkBot", text |-> "Connect with me for opportunities.",
             publishedAt |-> "2023-05-02", likeCount |-> 2, platform |-> "linkedin" ] >>,
      unknown |->
        << [ author |-> "DefaultUser", text |-> "Sample comment.",
             publishedAt |-> "2023-06-01", likeCount |-> 3, platform |-> "unknown" ] >> ]

\* mutant: the fallback ignores the platform
load_sample_comments_Default(plat) == Samples["unknown"]

\* line 178: samples.get(platform, samples['unknown'])
load_sample_comments(plat) ==
    IF plat \in DOMAIN Samples THEN Samples[plat] ELSE Samples["unknown"]

\* lines 399-402: the credentials, each present when its variable is set
HasYoutubeKey(e) == "YOUTUBE_API_KEY" \in e
HasFacebookToken(e) == "FACEBOOK_ACCESS_TOKEN" \in e
HasTwitterBearer(e) ==
    "TWITTER_BEARER_TOKEN" \in e \/ "TWITTER_BEARER" \in e \/ "TWITTER_TOKEN" \in e
HasLinkedinToken(e) == "LINKEDIN_ACCESS_TOKEN" \in e

\* lines 413, 443: url.split('/')[-1] if '/' in url else None
LastSegment(u) == IF Contains(u, "/") THEN Last(SplitStr(u, "/")) ELSE NoneVal
\* line 423: url.split('/')[-2] if '/p/' in url else None
MediaId(u) == IF Contains(u, "/p/") THEN SecondLast(SplitStr(u, "/")) ELSE NoneVal
\* line 433: url.split('/status/')[-1] if '/status/' in url else None
TweetId(u) == IF Contains(u, "/status/") THEN Last(SplitStr(u, "/status/")) ELSE NoneVal

\* lines 397-452: local `collected` when line 454 is reached
FetchStep(u, e, resp) ==
    LET plat == detect_platform_from_url(u) IN
    CASE plat = "youtube" ->
            IF Truthy(extract_youtube_id(u)) /\ HasYoutubeKey(e)
            THEN fetch_comments("youtube", TRUE, resp) ELSE <<>>
      [] plat = "facebook" ->
            IF HasFacebookToken(e) /\ Truthy(LastSegment(u))
            THEN fetch_comments("facebook", TRUE, resp) ELSE <<>>
      [] plat = "instagram" ->
            IF HasFacebookToken(e) /\ Truthy(MediaId(u))
            THEN fetch_comments("instagram", TRUE, resp) ELSE <<>>
      [] plat = "x" ->
            IF HasTwitterBearer(e) /\ Truthy(TweetId(u)) THEN fetch_x_comments ELSE <<>>
      [] plat = "linkedin" ->
            IF HasLinkedinToken(e) /\ Truthy(LastSegment(u))
            THEN fetch_linkedin_comments ELSE <<>>
      [] OTHER -> <<>>

\* lines 394-457
ProcessUrl ==
    /\ pc = "process_url"
    /\ \E resp \in ApiResponses :
          LET got == FetchStep(url, env, resp) IN
          /\ fetched' = got
          /\ collected' =
                IF got = <<>> THEN load_sample_comments(detect_platform_from_url(url))
                ELSE got
    /\ platform' = detect_platform_from_url(url)
    /\ pc' = "url_done"
    /\ UNCHANGED <<analysis, running, detected, file, url, env>>
    /\ UNCHANGED <<analysis_sorted, report, exitStatus>>

Urls ==
    { "https://www.youtube.com/watch?v=abc",
      "https://youtu.be/xyz",
      "https://www.youtube.com/watch",
      "https://YouTube.com/watch?t=1&v=q1",
      "https://www.facebook.com/page/posts/123",
      "https://www.facebook.com/page/",
      "facebook.com",
      "https://www.instagram.com/p/Cx1/",
      "https://www.instagram.com/user",
      "https://x.com/u/status/99",
      "https://twitter.com/u",
      "https://www.linkedin.com/posts/abc",
      "https://example.org/post/1",
      "" }

Credentials ==
    { "YOUTUBE_API_KEY", "FACEBOOK_ACCESS_TOKEN", "TWITTER_BEARER_TOKEN",
      "TWITTER_BEARER", "TWITTER_TOKEN", "LINKEDIN_ACCESS_TOKEN" }

InitUrl ==
    /\ url \in Urls
    /\ env \in SUBSET Credentials
    /\ collected = <<>>
    /\ analysis = <<>>
    /\ running = <<>>
    /\ detected = <<>>
    /\ pc = "process_url"
    /\ file = NoFile
    /\ platform = "unknown"
    /\ fetched = <<>>
    /\ analysis_sorted = <<>>
    /\ report = <<>>
    /\ exitStatus = <<>>

NextUrl == ProcessUrl

SpecUrl == InitUrl /\ [][NextUrl]_vars

-----------------------------------------------------------------------------
(* Claims on process_url (SpecUrl)                                         *)

PlatformNames == { "youtube", "facebook", "instagram", "x", "linkedin", "unknown" }

\* C10: when the fetch step yields no comments, whatever the reason, the
\* comments handed on are the demo dataset of the detected platform (the
\* unknown dataset for an unrecognized platform); a non-empty fetch result is
\* handed on unchanged.
C10_DemoFallback ==
    pc = "url_done" =>
        /\ platform \in PlatformNames
        /\ platform = detect_platform_from_url(url)
        /\ fetched = <<>> => collected = Samples[platform]
        /\ fetched # <<>> => collected = fetched

\* C10 witness: the credential was there and the id extracted, the fetch came
\* back empty, and the youtube demo dataset was handed on.
C10_Witness ==
    /\ pc = "url_done"
    /\ platform = "youtube"
    /\ HasYoutubeKey(env)
    /\ Truthy(extract_youtube_id(url))
    /\ fetched = <<>>
    /\ collected = Samples["youtube"]

-----------------------------------------------------------------------------
(* main, lines 460-518: one run from the menu to the report                *)

\* lines 474-478: the answers the menu loop accepts; any other answer is
\* asked again and changes nothing
Choices == {"1", "2", "3", "4", "5", "6"}

\* line 506: not collected
NoComments_Never(c) == FALSE

NoComments(c) == c = <<>>

RECURSIVE InsertByScore_BeforeEqual(_, _)
InsertByScore_BeforeEqual(s, x) ==
    IF s = <<>> THEN <<x>>
    ELSE IF Last(s).score < x.score THEN Append(s, x)
    ELSE Append(InsertByScore_BeforeEqual(SubSeq(s, 1, Len(s) - 1), x), Last(s))

RECURSIVE InsertByScore(_, _)
\* s is in sorted order: x goes behind every element whose key is not greater
InsertByScore(s, x) ==
    IF s = <<>> THEN <<x>>
    ELSE IF Last(s).score <= x.score THEN Append(s, x)
    ELSE Append(InsertByScore(SubSeq(s, 1, Len(s) - 1), x), Last(s))

RECURSIVE sorted(_)
\* line 512: sorted(analysis, key=lambda x: x['score']); Python's sort is
\* ascending and stable
sorted(seq) ==
    IF seq = <<>> THEN <<>>
    ELSE InsertByScore(sorted(SubSeq(seq, 1, Len(seq) - 1)), Last(seq))

\* lines 474-504: the menu choice is read, then the source: option 1 asks for
\* the path of a CSV file, every other option for a URL
Choose ==
    /\ pc = "choose"
    /\ \E choice \in Choices :
          IF choice = "1"
          THEN /\ file' \in CsvFiles
               /\ url' = url
               /\ pc' = "read_csv"
          ELSE /\ url' \in Urls
               /\ file' = file
               /\ pc' = "process_url"
    /\ UNCHANGED <<collected, analysis, running, detected, env, platform, fetched>>
    /\ UNCHANGED <<analysis_sorted, report, exitStatus>>

\* lines 488-489 after the CSV read; process_url has returned platform itself
PlatformAfter ==
    IF pc = "csv_done" /\ collected # <<>> /\ Truthy(collected[1].platform)
    THEN collected[1].platform
    ELSE platform

\* lines 506-508: sys.exit(1)
ExitNoData ==
    /\ pc \in {"csv_done", "url_done"}
    /\ NoComments(collected)
    /\ platform' = PlatformAfter
    /\ exitStatus' = <<1>>
    /\ pc' = "exited"
    /\ UNCHANGED <<collected, analysis, running, detected, file, url, env, fetched>>
    /\ UNCHANGED <<analysis_sorted, report>>

\* lines 506-510: there are comments, the comprehension of line 511 starts
BeginAnalysis ==
    /\ pc \in {"csv_done", "url_done"}
    /\ ~NoComments(collected)
    /\ platform' = PlatformAfter
    /\ pc' = "analyze"
    /\ UNCHANGED <<collected, analysis, running, detected, file, url, env, fetched>>
    /\ UNCHANGED <<analysis_sorted, report, exitStatus>>

\* line 512, once the comprehension of line 511 has scored every comment
SortResults ==
    /\ pc = "analyze"
    /\ Len(analysis) = Len(collected)
    /\ analysis_sorted' = sorted(analysis)
    /\ pc' = "report"
    /\ UNCHANGED <<collected, analysis, running, detected, file, url, env,
                   platform, fetched, report, exitStatus>>

\* the arguments of the call at line 516 the model keeps
ReportCall == [ platform |-> platform, analysis_list |-> analysis_sorted ]

\* lines 516-518: generate_pdf_report returns, main ends
GenerateReport ==
    /\ pc = "report"
    /\ report' = Append(report, ReportCall)
    /\ exitStatus' = <<0>>
    /\ pc' = "done"
    /\ UNCHANGED <<collected, analysis, running, detected, file, url, env,
                   platform, fetched, analysis_sorted>>

\* line 516: generate_pdf_report raises (lines 324-390 catch nothing: the
\* chart or the file at output_path cannot be written)
GenerateReportRaise ==
    /\ pc = "report"
    /\ report' = Append(report, ReportCall)
    /\ exitStatus' = <<1>>
    /\ pc' = "raised"
    /\ UNCHANGED <<collected, analysis, running, detected, file, url, env,
                   platform, fetched, analysis_sorted>>

\* os.environ of a run: no credential at all, or every credential
MainEnvs == { {}, Credentials }

InitMain ==
    /\ env \in MainEnvs
    /\ pc = "choose"
    /\ file = NoFile
    /\ url = ""
    /\ collected = <<>>
    /\ analysis = <<>>
    /\ running = <<>>
    /\ detected = <<>>
    /\ platform = "unknown"
    /\ fetched = <<>>
    /\ analysis_sorted = <<>>
    /\ report = <<>>
    /\ exitStatus = <<>>

NextMain ==
    \/ Choose
    \/ ReadCsv
    \/ ProcessUrl
    \/ ExitNoData
    \/ BeginAnalysis
    \/ AnalyzeReturn
    \/ AnalyzeRaise
    \/ SortResults
    \/ GenerateReport
    \/ GenerateReportRaise

SpecMain == InitMain /\ [][NextMain]_vars

-----------------------------------------------------------------------------
(* Claims on main (SpecMain)                                               *)

\* the fetch and its fallback, or the CSV read, are over
CollectionOver == pc \notin {"choose", "read_csv", "process_url"}

\* main stands at line 506
AtNoDataCheck == pc \in {"csv_done", "url_done"}

NonZeroExit == exitStatus # <<>> /\ exitStatus[1] # 0

NothingScored == analysis = <<>> /\ running = <<>> /\ detected = <<>>

NothingReported == analysis_sorted = <<>> /\ report = <<>>

\* C11: in every run of main, when no comment exists after the fetch and its
\* fallback (or after the CSV read), the only step main can take is the exit
\* with a non-zero status, and it is taken with no comment scored and no
\* report generated; comments are scored and a report is generated only in
\* runs that collected at least one comment.
C11_NoDataExit ==
    /\ (CollectionOver /\ collected = <<>>) =>
          /\ NothingScored
          /\ NothingReported
          /\ \/ AtNoDataCheck /\ ENABLED ExitNoData /\ ~ENABLED BeginAnalysis
             \/ pc = "exited" /\ NonZeroExit
    /\ (~NothingScored \/ ~NothingReported \/ pc \in {"analyze", "report", "done"}) =>
          Len(collected) >= 1

\* C11 witness: a CSV file that exists and has lines gave no comment, and the
\* run has ended with status 1, nothing scored, nothing reported.
C11_Witness ==
    /\ pc = "exited"
    /\ file.exists
    /\ file.lines # <<>>
    /\ collected = <<>>
    /\ exitStatus = <<1>>
    /\ NothingScored
    /\ NothingReported

\* the bijections of 1..n
Perms(n) == { p \in [1..n -> 1..n] : \A i, j \in 1..n : p[i] = p[j] => i = j }

\* out lists the results res in the order p: out[k] is res[p[k]]
Rearranges(out, res, p) ==
    /\ Len(out) = Len(res)
    /\ \A k \in 1..Len(out) : out[k] = res[p[k]]

\* out[k] is the result of scoring the comment at position p[k] of the input
ScoresComment(out, p, k) ==
    /\ out[k].author = AuthorOf(collected[p[k]])
    /\ out[k].text = TextOf(collected[p[k]])
    /\ out[k].likeCount = collected[p[k]].likeCount

\* C12: the sequence of results handed to the report is a permutation of the
\* analysis results in ascending order of score (most suspicious first), and
\* two results of equal score keep the relative order their comments had in
\* the input sequence.
C12_StableAscending ==
    \A i \in 1..Len(report) :
        LET out == report[i].analysis_list IN
        /\ Len(analysis) = Len(collected)
        /\ \E p \in Perms(Len(analysis)) :
              /\ Rearranges(out, analysis, p)
              /\ \A k \in 1..Len(out) : ScoresComment(out, p, k)
              /\ \A k, l \in 1..Len(out) :
                    k < l =>
                       /\ out[k].score <= out[l].score
                       /\ out[k].score = out[l].score => p[k] < p[l]

\* C12 witness: a report was handed three or more results, two of them
\* different results of equal score, and the sort had to move a result ahead
\* of one scored before it.
C12_Witness ==
    /\ report # <<>>
    /\ Len(analysis) >= 3
    /\ \E i, j \in 1..Len(analysis) :
          i < j /\ analysis[i].score = analysis[j].score /\ analysis[i] # analysis[j]
    /\ \E i, j \in 1..Len(analysis) :
          i < j /\ analysis[i].score > analysis[j].score
    /\ report[1].analysis_list # analysis

====
